---- MODULE Spec2Model ----
(***************************************************************************)
(* Model of the backend supervisor of src-tauri/src/lib.rs: the two tauri  *)
(* commands start_backend and stop_backend, the Mutex<BackendState> they   *)
(* share, and the relay task start_backend spawns over the sidecar's       *)
(* event receiver.                                                         *)
(*                                                                         *)
(* Commands run on a multi-threaded runtime, so every command invocation   *)
(* is a process with its own program counter; the std Mutex is modelled    *)
(* by lockHolder.  The sidecar's CommandEvent stream is an input: any      *)
(* sequence of events may arrive on the receiver while it is alive.        *)
(***************************************************************************)
EXTENDS Integers, Sequences, FiniteSets, TLC

\* ---------------------------------------------------------------- bounds
NumCallers == 2     \* command invocations that may run concurrently
MaxCalls   == 3     \* total number of command invocations
MaxSpawns  == 2     \* total number of sidecar processes spawned
MaxEvents  == 2     \* total number of events the sidecars send

Callers == 1..NumCallers
Ids     == 1..MaxSpawns

\* ------------------------------------------------------- event alphabet
Lines    == { <<72, 255>> }            \* raw bytes; 255 is not valid UTF-8
Messages == { "broken pipe" }
Statuses == { 1 }                    \* exit code

NoLine   == << >>
NoMsg    == ""
NoStatus == -1

Ev(kind, line, msg, status) ==
    [kind |-> kind, line |-> line, msg |-> msg, status |-> status]

CommandEvent ==
       { Ev("Stdout", l, NoMsg, NoStatus) : l \in Lines }
  \cup { Ev("Stderr", l, NoMsg, NoStatus) : l \in Lines }
  \cup { Ev("Error", NoLine, m, NoStatus) : m \in Messages }
  \cup { Ev("Terminated", NoLine, NoMsg, s) : s \in Statuses }
  \cup { Ev("Other", NoLine, NoMsg, NoStatus) }

\* String::from_utf8_lossy on the modelled lines: an ASCII byte decodes to
\* itself, a byte that is not valid UTF-8 becomes U+FFFD (65533).
from_utf8_lossy(line) ==
    [i \in DOMAIN line |-> IF line[i] < 128 THEN line[i] ELSE 65533]

\* ------------------------------------------------------- command results
\* Result<String, String>; NoResult before any invocation has returned, and
\* an invocation that panicked never returned one
Ok(m)  == [kind |-> "Ok",  msg |-> m]
Err(m) == [kind |-> "Err", msg |-> m]
NoResult == [kind |-> "none", msg |-> ""]
Panicked == [kind |-> "panic", msg |-> ""]

AlreadyRunning == Ok("Backend already running")
Started        == Ok("Backend started successfully")
Stopped        == Ok("Backend stopped")
NotRunning     == Ok("Backend not running")
PoisonError    == Err("poisoned lock: another task failed inside")
SpawnError     == Err("Failed to spawn backend process")
SidecarError   == Err("Failed to create backend command")

\* ------------------------------------------------------------- variables
VARIABLES
    process,     \* BackendState.process: 0 is None, k is Some(handle of relay k)
    poisoned,    \* the Mutex is poisoned
    lockHolder,  \* 0, or the caller holding the MutexGuard
    pc,          \* pc[c]: position of caller c
    kid,         \* kid[c]: the child caller c spawned in this invocation
    last,        \* << command, result >> of the invocation that returned last
    calls,       \* invocations made so far
    spawned,     \* sidecar processes spawned so far
    child,       \* child[k]: "none", "running", "exited"
    relay,       \* relay[k]: "none", "Listening", "Done", "Aborted"
    abortReq,    \* abortReq[k]: JoinHandle::abort has been called on relay k
    rx,          \* rx[k]: events sent to relay k's receiver and not yet received
    closed,      \* closed[k]: every sender of rx[k] has been dropped
    produced,    \* events sent so far
    emitted,     \* emitted[k]: notifications relay k emitted, in order
    printed      \* the last stdout/stderr line printed by a relay

vars == << process, poisoned, lockHolder, pc, kid, last, calls, spawned,
           child, relay, abortReq, rx, closed, produced, emitted, printed >>

callerVars == << pc, kid, last, calls >>
relayVars  == << relay, rx, emitted, printed >>
worldVars  == << child, closed, produced >>

\* run(): BackendState { process: None } behind a fresh Mutex
Init ==
    /\ process = 0
    /\ poisoned = FALSE
    /\ lockHolder = 0
    /\ pc = [c \in Callers |-> "idle"]
    /\ kid = [c \in Callers |-> 0]
    /\ last = << "none", NoResult >>
    /\ calls = 0
    /\ spawned = 0
    /\ child = [k \in Ids |-> "none"]
    /\ relay = [k \in Ids |-> "none"]
    /\ abortReq = [k \in Ids |-> FALSE]
    /\ rx = [k \in Ids |-> << >>]
    /\ closed = [k \in Ids |-> FALSE]
    /\ produced = 0
    /\ emitted = [k \in Ids |-> << >>]
    /\ printed = << >>

\* The receiver of child k is alive: owned by the invocation that spawned
\* the child and has not yet moved it into the task, or by a running relay.
RxAlive(k) ==
    \/ relay[k] = "Listening"
    \/ \E c \in Callers : pc[c] = "s_task" /\ kid[c] = k

\* caller c returns r from command cmd; the MutexGuard (if held) is dropped
Return(c, cmd, r) ==
    /\ pc' = [pc EXCEPT ![c] = "idle"]
    /\ last' = << cmd, r >>
    /\ kid' = [kid EXCEPT ![c] = 0]
    /\ lockHolder' = IF lockHolder = c THEN 0 ELSE lockHolder

\* ------------------------------------------------------- start_backend
\* start_backend without the lock: the invocation goes straight to the check
start_backend_unlocked(c) ==
    /\ pc[c] = "idle"
    /\ calls < MaxCalls
    /\ calls' = calls + 1
    /\ pc' = [pc EXCEPT ![c] = "s_check"]
    /\ UNCHANGED << kid, last, lockHolder >>
    /\ UNCHANGED << process, poisoned, spawned, abortReq >>
    /\ UNCHANGED << relayVars, worldVars >>

\* The UI layer invokes start_backend, which takes the lock:
\* backend_state.lock().map_err(|e| e.to_string())?
\* (an invocation blocked on the lock has not started yet)
start_backend(c) ==
    /\ pc[c] = "idle"
    /\ calls < MaxCalls
    /\ calls' = calls + 1
    /\ lockHolder = 0
    /\ IF poisoned
         THEN Return(c, "start", PoisonError)
         ELSE /\ lockHolder' = c
              /\ pc' = [pc EXCEPT ![c] = "s_check"]
              /\ UNCHANGED << kid, last >>
    /\ UNCHANGED << process, poisoned, spawned, abortReq >>
    /\ UNCHANGED << relayVars, worldVars >>

\* start_backend without the presence check
StartCheck_ignoresHandle(c) ==
    /\ pc[c] = "s_check"
    /\ pc' = [pc EXCEPT ![c] = "s_spawn"]
    /\ UNCHANGED << kid, last, lockHolder >>
    /\ UNCHANGED << process, poisoned, calls, spawned, abortReq >>
    /\ UNCHANGED << relayVars, worldVars >>

\* start_backend refusing to start while an earlier relay is still listening
StartCheck_refusesWhileCancelling(c) ==
    /\ pc[c] = "s_check"
    /\ IF process # 0 \/ \E k \in Ids : relay[k] = "Listening"
         THEN Return(c, "start", AlreadyRunning)
         ELSE /\ pc' = [pc EXCEPT ![c] = "s_spawn"]
              /\ UNCHANGED << kid, last, lockHolder >>
    /\ UNCHANGED << process, poisoned, calls, spawned, abortReq >>
    /\ UNCHANGED << relayVars, worldVars >>

\* if state.process.is_some() { return Ok("Backend already running") }
StartCheck(c) ==
    /\ pc[c] = "s_check"
    /\ IF process # 0
         THEN Return(c, "start", AlreadyRunning)
         ELSE /\ pc' = [pc EXCEPT ![c] = "s_spawn"]
              /\ UNCHANGED << kid, last, lockHolder >>
    /\ UNCHANGED << process, poisoned, calls, spawned, abortReq >>
    /\ UNCHANGED << relayVars, worldVars >>

\* start_backend reporting success although the spawn failed
StartSpawn_swallowsError(c) ==
    /\ pc[c] = "s_spawn"
    /\ \E outcome \in { "spawned", "spawn failed", "sidecar failed" } :
         CASE outcome = "spawned" ->
                /\ spawned < MaxSpawns
                /\ spawned' = spawned + 1
                /\ child' = [child EXCEPT ![spawned + 1] = "running"]
                /\ kid' = [kid EXCEPT ![c] = spawned + 1]
                /\ pc' = [pc EXCEPT ![c] = "s_task"]
                /\ UNCHANGED << last, lockHolder >>
           [] outcome = "spawn failed" ->
                /\ Return(c, "start", Started)
                /\ UNCHANGED << spawned, child >>
           [] outcome = "sidecar failed" ->
                /\ Return(c, "start", SidecarError)
                /\ UNCHANGED << spawned, child >>
    /\ UNCHANGED << process, poisoned, calls, abortReq, closed, produced >>
    /\ UNCHANGED relayVars

\* match app.shell().sidecar("notelens-backend") { Ok(command) => {
\*   let (mut rx, child) = command.spawn().map_err(...)?; ... } Err(e) => Err(...) }
StartSpawn(c) ==
    /\ pc[c] = "s_spawn"
    /\ \E outcome \in { "spawned", "spawn failed", "sidecar failed" } :
         CASE outcome = "spawned" ->
                /\ spawned < MaxSpawns
                /\ spawned' = spawned + 1
                /\ child' = [child EXCEPT ![spawned + 1] = "running"]
                /\ kid' = [kid EXCEPT ![c] = spawned + 1]
                /\ pc' = [pc EXCEPT ![c] = "s_task"]
                /\ UNCHANGED << last, lockHolder >>
           [] outcome = "spawn failed" ->
                /\ Return(c, "start", SpawnError)
                /\ UNCHANGED << spawned, child >>
           [] outcome = "sidecar failed" ->
                /\ Return(c, "start", SidecarError)
                /\ UNCHANGED << spawned, child >>
    /\ UNCHANGED << process, poisoned, calls, abortReq, closed, produced >>
    /\ UNCHANGED relayVars

\* let handle = tauri::async_runtime::spawn(async move { ... })
StartTask(c) ==
    /\ pc[c] = "s_task"
    /\ relay' = [relay EXCEPT ![kid[c]] = "Listening"]
    /\ pc' = [pc EXCEPT ![c] = "s_store"]
    /\ UNCHANGED << process, poisoned, lockHolder, kid, last, calls,
                    spawned, abortReq, rx, emitted, printed >>
    /\ UNCHANGED worldVars

\* start_backend returning without storing the handle
StartStore_forgetsHandle(c) ==
    /\ pc[c] = "s_store"
    /\ Return(c, "start", Started)
    /\ UNCHANGED << process, poisoned, calls, spawned, abortReq >>
    /\ UNCHANGED << relayVars, worldVars >>

\* state.process = Some(handle); Ok("Backend started successfully")
StartStore(c) ==
    /\ pc[c] = "s_store"
    /\ process' = kid[c]
    /\ Return(c, "start", Started)
    /\ UNCHANGED << poisoned, calls, spawned, abortReq >>
    /\ UNCHANGED << relayVars, worldVars >>

\* A library call made while the guard is held panics: the invocation
\* unwinds without a result, its locals are dropped and the Mutex is poisoned.
StartPanic(c) ==
    /\ pc[c] \in { "s_spawn", "s_task" }
    /\ poisoned' = TRUE
    /\ Return(c, "start", Panicked)
    /\ UNCHANGED << process, calls, spawned, abortReq >>
    /\ UNCHANGED << relayVars, worldVars >>

\* -------------------------------------------------------- stop_backend
\* The UI layer invokes stop_backend, which takes the lock:
\* backend_state.lock().map_err(|e| e.to_string())?
stop_backend(c) ==
    /\ pc[c] = "idle"
    /\ calls < MaxCalls
    /\ calls' = calls + 1
    /\ lockHolder = 0
    /\ IF poisoned
         THEN Return(c, "stop", PoisonError)
         ELSE /\ lockHolder' = c
              /\ pc' = [pc EXCEPT ![c] = "t_take"]
              /\ UNCHANGED << kid, last >>
    /\ UNCHANGED << process, poisoned, spawned, abortReq >>
    /\ UNCHANGED << relayVars, worldVars >>

\* stop_backend aborting through a borrow: the handle is not taken
StopTake_keepsHandle(c) ==
    /\ pc[c] = "t_take"
    /\ IF process # 0
         THEN /\ abortReq' = [abortReq EXCEPT ![process] = TRUE]
              /\ Return(c, "stop", Stopped)
         ELSE /\ UNCHANGED abortReq
              /\ Return(c, "stop", NotRunning)
    /\ UNCHANGED << process, poisoned, calls, spawned >>
    /\ UNCHANGED << relayVars, worldVars >>

\* stop_backend reporting a finished relay as an error
StopTake_errWhenFinished(c) ==
    /\ pc[c] = "t_take"
    /\ IF process # 0
         THEN /\ abortReq' = [abortReq EXCEPT ![process] = TRUE]
              /\ process' = 0
              /\ Return(c, "stop", IF relay[process] = "Done"
                                     THEN Err("Backend terminated")
                                     ELSE Stopped)
         ELSE /\ UNCHANGED << abortReq, process >>
              /\ Return(c, "stop", NotRunning)
    /\ UNCHANGED << poisoned, calls, spawned >>
    /\ UNCHANGED << relayVars, worldVars >>

\* stop_backend killing the child of the handle it takes
StopTake_killsChild(c) ==
    /\ pc[c] = "t_take"
    /\ IF process # 0
         THEN /\ abortReq' = [abortReq EXCEPT ![process] = TRUE]
              /\ child' = [child EXCEPT ![process] = "exited"]
              /\ process' = 0
              /\ Return(c, "stop", Stopped)
         ELSE /\ UNCHANGED << abortReq, process, child >>
              /\ Return(c, "stop", NotRunning)
    /\ UNCHANGED << poisoned, calls, spawned, closed, produced >>
    /\ UNCHANGED relayVars

\* stop_backend awaiting the aborted handle before it returns
StopTake_awaitsRelay(c) ==
    /\ pc[c] = "t_take"
    /\ IF process # 0
         THEN /\ relay[process] # "Listening"
              /\ abortReq' = [abortReq EXCEPT ![process] = TRUE]
              /\ process' = 0
              /\ Return(c, "stop", Stopped)
         ELSE /\ UNCHANGED << abortReq, process >>
              /\ Return(c, "stop", NotRunning)
    /\ UNCHANGED << poisoned, calls, spawned >>
    /\ UNCHANGED << relayVars, worldVars >>

\* stop_backend dropping the handle it takes without aborting the task
StopTake_noAbort(c) ==
    /\ pc[c] = "t_take"
    /\ IF process # 0
         THEN /\ process' = 0
              /\ Return(c, "stop", Stopped)
         ELSE /\ UNCHANGED process
              /\ Return(c, "stop", NotRunning)
    /\ UNCHANGED << poisoned, calls, spawned, abortReq >>
    /\ UNCHANGED << relayVars, worldVars >>

\* if let Some(handle) = state.process.take() { handle.abort(); ... }
StopTake(c) ==
    /\ pc[c] = "t_take"
    /\ IF process # 0
         THEN /\ abortReq' = [abortReq EXCEPT ![process] = TRUE]
              /\ process' = 0
              /\ Return(c, "stop", Stopped)
         ELSE /\ UNCHANGED << abortReq, process >>
              /\ Return(c, "stop", NotRunning)
    /\ UNCHANGED << poisoned, calls, spawned >>
    /\ UNCHANGED << relayVars, worldVars >>

\* ------------------------------------------------------------ the relay
Notification(name, msg, status, delivered) ==
    [name |-> name, msg |-> msg, status |-> status, delivered |-> delivered]

\* the Terminated arm without its break
Handle_noBreak(k, event, delivered) ==
    CASE event.kind \in { "Stdout", "Stderr" } ->
           /\ printed' = << event.kind, from_utf8_lossy(event.line) >>
           /\ UNCHANGED << relay, emitted >>
      [] event.kind = "Error" ->
           /\ emitted' = [emitted EXCEPT ![k] = Append(@,
                 Notification("backend-error", event.msg, NoStatus, delivered))]
           /\ UNCHANGED << relay, printed >>
      [] event.kind = "Terminated" ->
           /\ emitted' = [emitted EXCEPT ![k] = Append(@,
                 Notification("backend-terminated", NoMsg, event.status, delivered))]
           /\ UNCHANGED << relay, printed >>
      [] OTHER ->
           UNCHANGED << relay, emitted, printed >>

\* the Error arm ending the loop as the Terminated arm does
Handle_breakOnError(k, event, delivered) ==
    CASE event.kind \in { "Stdout", "Stderr" } ->
           /\ printed' = << event.kind, from_utf8_lossy(event.line) >>
           /\ UNCHANGED << relay, emitted >>
      [] event.kind = "Error" ->
           /\ emitted' = [emitted EXCEPT ![k] = Append(@,
                 Notification("backend-error", event.msg, NoStatus, delivered))]
           /\ relay' = [relay EXCEPT ![k] = "Done"]
           /\ UNCHANGED printed
      [] event.kind = "Terminated" ->
           /\ emitted' = [emitted EXCEPT ![k] = Append(@,
                 Notification("backend-terminated", NoMsg, event.status, delivered))]
           /\ relay' = [relay EXCEPT ![k] = "Done"]
           /\ UNCHANGED printed
      [] OTHER ->
           UNCHANGED << relay, emitted, printed >>

\* the Error arm leaving the loop when its notification cannot be delivered
Handle_stopsOnFailedEmit(k, event, delivered) ==
    CASE event.kind \in { "Stdout", "Stderr" } ->
           /\ printed' = << event.kind, from_utf8_lossy(event.line) >>
           /\ UNCHANGED << relay, emitted >>
      [] event.kind = "Error" ->
           /\ emitted' = [emitted EXCEPT ![k] = Append(@,
                 Notification("backend-error", event.msg, NoStatus, delivered))]
           /\ relay' = [relay EXCEPT ![k] = IF delivered THEN @ ELSE "Done"]
           /\ UNCHANGED printed
      [] event.kind = "Terminated" ->
           /\ emitted' = [emitted EXCEPT ![k] = Append(@,
                 Notification("backend-terminated", NoMsg, event.status, delivered))]
           /\ relay' = [relay EXCEPT ![k] = "Done"]
           /\ UNCHANGED printed
      [] OTHER ->
           UNCHANGED << relay, emitted, printed >>

\* the output arms decoding strictly: a line that is not UTF-8 ends the task
Handle_strictUtf8(k, event, delivered) ==
    CASE event.kind \in { "Stdout", "Stderr" } ->
           IF \E i \in DOMAIN event.line : event.line[i] >= 128
             THEN /\ relay' = [relay EXCEPT ![k] = "Done"]
                  /\ UNCHANGED << emitted, printed >>
             ELSE /\ printed' = << event.kind, from_utf8_lossy(event.line) >>
                  /\ UNCHANGED << relay, emitted >>
      [] event.kind = "Error" ->
           /\ emitted' = [emitted EXCEPT ![k] = Append(@,
                 Notification("backend-error", event.msg, NoStatus, delivered))]
           /\ UNCHANGED << relay, printed >>
      [] event.kind = "Terminated" ->
           /\ emitted' = [emitted EXCEPT ![k] = Append(@,
                 Notification("backend-terminated", NoMsg, event.status, delivered))]
           /\ relay' = [relay EXCEPT ![k] = "Done"]
           /\ UNCHANGED printed
      [] OTHER ->
           UNCHANGED << relay, emitted, printed >>

\* the effect of one match arm on (relay state, notifications, printed line)
Handle(k, event, delivered) ==
    CASE event.kind \in { "Stdout", "Stderr" } ->
           /\ printed' = << event.kind, from_utf8_lossy(event.line) >>
           /\ UNCHANGED << relay, emitted >>
      [] event.kind = "Error" ->
           /\ emitted' = [emitted EXCEPT ![k] = Append(@,
                 Notification("backend-error", event.msg, NoStatus, delivered))]
           /\ UNCHANGED << relay, printed >>
      [] event.kind = "Terminated" ->
           /\ emitted' = [emitted EXCEPT ![k] = Append(@,
                 Notification("backend-terminated", NoMsg, event.status, delivered))]
           /\ relay' = [relay EXCEPT ![k] = "Done"]
           /\ UNCHANGED printed
      [] OTHER ->
           UNCHANGED << relay, emitted, printed >>

\* while let Some(event) = rx.recv().await { match event { ... } }
RelayRecv(k) ==
    /\ relay[k] = "Listening"
    /\ rx[k] # << >>
    /\ rx' = [rx EXCEPT ![k] = Tail(@)]
    /\ \E delivered \in BOOLEAN : Handle(k, Head(rx[k]), delivered)
    /\ UNCHANGED << process, poisoned, lockHolder, abortReq, spawned >>
    /\ UNCHANGED << callerVars, worldVars >>

\* a relay that clears the stored handle when its loop ends
RelayClosed_clearsHandle(k) ==
    /\ relay[k] = "Listening"
    /\ rx[k] = << >>
    /\ closed[k]
    /\ relay' = [relay EXCEPT ![k] = "Done"]
    /\ process' = IF process = k THEN 0 ELSE process
    /\ UNCHANGED << poisoned, lockHolder, abortReq, spawned,
                    rx, emitted, printed >>
    /\ UNCHANGED << callerVars, worldVars >>

\* a relay whose loop does not end when recv() yields None
RelayClosed_keepsListening(k) ==
    /\ relay[k] = "Listening"
    /\ rx[k] = << >>
    /\ closed[k]
    /\ UNCHANGED vars

\* rx.recv().await yields None: the channel is closed and drained
RelayClosed(k) ==
    /\ relay[k] = "Listening"
    /\ rx[k] = << >>
    /\ closed[k]
    /\ relay' = [relay EXCEPT ![k] = "Done"]
    /\ UNCHANGED << process, poisoned, lockHolder, abortReq, spawned,
                    rx, emitted, printed >>
    /\ UNCHANGED << callerVars, worldVars >>

\* a runtime that never acts on an abort request
RelayAbort_ignored(k) ==
    /\ relay[k] = "Listening"
    /\ abortReq[k]
    /\ UNCHANGED vars

\* the runtime drops a task whose abort was requested at its next poll
RelayAbort(k) ==
    /\ relay[k] = "Listening"
    /\ abortReq[k]
    /\ relay' = [relay EXCEPT ![k] = "Aborted"]
    /\ UNCHANGED << process, poisoned, lockHolder, abortReq, spawned,
                    rx, emitted, printed >>
    /\ UNCHANGED << callerVars, worldVars >>

\* ------------------------------------------------------ the environment
\* the sidecar's threads send an event on the channel
ChildSend(k, event) ==
    /\ child[k] # "none"
    /\ RxAlive(k)
    /\ ~closed[k]
    /\ produced < MaxEvents
    /\ produced' = produced + 1
    /\ rx' = [rx EXCEPT ![k] = Append(@, event)]
    /\ child' = [child EXCEPT ![k] =
                   IF event.kind = "Terminated" THEN "exited" ELSE @]
    /\ UNCHANGED << process, poisoned, lockHolder, abortReq, spawned,
                    relay, emitted, printed, closed >>
    /\ UNCHANGED callerVars

\* the sidecar exits when nobody listens any more
ChildExit(k) ==
    /\ child[k] = "running"
    /\ ~RxAlive(k)
    /\ child' = [child EXCEPT ![k] = "exited"]
    /\ UNCHANGED << process, poisoned, lockHolder, abortReq, spawned,
                    closed, produced >>
    /\ UNCHANGED << callerVars, relayVars >>

\* the last sender of the channel is dropped
ChannelClose(k) ==
    /\ child[k] # "none"
    /\ ~closed[k]
    /\ closed' = [closed EXCEPT ![k] = TRUE]
    /\ UNCHANGED << process, poisoned, lockHolder, abortReq, spawned,
                    child, produced >>
    /\ UNCHANGED << callerVars, relayVars >>

Next ==
    \/ \E c \in Callers : start_backend(c)
    \/ \E c \in Callers : StartCheck(c)
    \/ \E c \in Callers : StartSpawn(c)
    \/ \E c \in Callers : StartTask(c)
    \/ \E c \in Callers : StartStore(c)
    \/ \E c \in Callers : StartPanic(c)
    \/ \E c \in Callers : stop_backend(c)
    \/ \E c \in Callers : StopTake(c)
    \/ \E k \in Ids : RelayRecv(k)
    \/ \E k \in Ids : RelayClosed(k)
    \/ \E k \in Ids : RelayAbort(k)
    \/ \E k \in Ids, event \in CommandEvent : ChildSend(k, event)
    \/ \E k \in Ids : ChildExit(k)
    \/ \E k \in Ids : ChannelClose(k)

Spec == Init /\ [][Next]_vars

\* The async runtime keeps polling a task that can make progress: a relay
\* with an event to receive, with a closed channel or with an abort
\* requested is eventually run.  Commands and the sidecar are under no
\* obligation to take a step.
FairSpec ==
    /\ Spec
    /\ \A k \in Ids : WF_vars(RelayRecv(k))
    /\ \A k \in Ids : WF_vars(RelayClosed(k))
    /\ \A k \in Ids : WF_vars(RelayAbort(k))

TypeOK ==
    /\ process \in 0..MaxSpawns
    /\ lockHolder \in 0..NumCallers
    /\ spawned \in 0..MaxSpawns
    /\ calls \in 0..MaxCalls
    /\ produced \in 0..MaxEvents
    /\ \A k \in Ids : /\ child[k] \in { "none", "running", "exited" }
                      /\ relay[k] \in { "none", "Listening", "Done", "Aborted" }
                      /\ \A i \in DOMAIN rx[k] : rx[k][i] \in CommandEvent

\* ================================================================ claims
ActiveChildren == { k \in Ids : child[k] = "running" }
ActiveRelays   == { k \in Ids : relay[k] = "Listening" }

\* caller c takes a step that ends its invocation with a returned result,
\* which is last'[2]
Returns(c) == pc[c] # "idle" /\ pc'[c] = "idle" /\ last'[2] # Panicked

\* an invocation is refused at the lock and returns at once
ReturnsAtLock == calls' # calls /\ pc' = pc

\* the supervisor state and everything start_backend may create
Untouched ==
    /\ process' = process
    /\ spawned' = spawned
    /\ child' = child
    /\ relay' = relay
    /\ abortReq' = abortReq

\* C1: in every reachable state at most one backend child process is running
\* and at most one relay task is active (Listening: neither Done nor
\* finished cancelling).
C1_AtMostOneActive ==
    /\ Cardinality(ActiveChildren) <= 1
    /\ Cardinality(ActiveRelays) <= 1

\* C2: a start_backend() invocation that found no handle and whose sidecar
\* resolution and spawn succeeded returns Ok("Backend started successfully")
\* and leaves exactly one handle in the state: the handle of the relay it
\* spawned, stored into a cell that was empty.
C2_StartStoresOneHandle ==
    [][ \A c \in Callers :
          (kid[c] # 0 /\ Returns(c)) =>
             /\ last' = << "start", Started >>
             /\ process = 0
             /\ process' = kid[c]
             /\ relay[kid[c]] # "none"
             /\ spawned' = spawned ]_vars

C2_Witness ==
    /\ \A c \in Callers : pc[c] = "idle"
    /\ last = << "start", Started >>
    /\ process # 0
    /\ relay[process] = "Listening"

\* C3: a start_backend() invocation that finds a handle present returns
\* Ok("Backend already running"), spawns no child and no relay task and
\* leaves the stored handle unchanged, however often it is repeated.
C3_StartWhenPresentIsNoOp ==
    [][ \A c \in Callers :
          (pc[c] = "s_check" /\ process # 0 /\ pc'[c] # pc[c]) =>
             /\ pc'[c] = "idle"
             /\ last' = << "start", AlreadyRunning >>
             /\ Untouched
             /\ rx' = rx /\ emitted' = emitted ]_vars

\* a start_backend() is at its check with a handle present, right after
\* another one returned "Backend already running"
C3_Witness ==
    /\ process # 0
    /\ last = << "start", AlreadyRunning >>
    /\ \E c \in Callers : pc[c] = "s_check"

\* C4: a stop_backend() invocation that finds a handle present removes it,
\* requests cancellation of its relay task and returns Ok("Backend stopped");
\* a stop_backend() invocation that comes right after it returns
\* Ok("Backend not running") and changes nothing.
C4_StopThenStop ==
    [][ \A c \in Callers :
          (pc[c] = "t_take" /\ pc'[c] # pc[c]) =>
             /\ process # 0 =>
                  /\ last' = << "stop", Stopped >>
                  /\ process' = 0
                  /\ abortReq' = [abortReq EXCEPT ![process] = TRUE]
             /\ last = << "stop", Stopped >> =>
                  /\ last' = << "stop", NotRunning >>
                  /\ Untouched ]_vars

\* a stop_backend() is about to take the handle right after another one
\* returned "Backend stopped"
C4_Witness ==
    /\ last = << "stop", Stopped >>
    /\ \E c \in Callers : pc[c] = "t_take"
    /\ \E k \in Ids : abortReq[k] /\ relay[k] = "Listening"

\* C5: a start_backend() invocation that fails returns Err and leaves the
\* supervisor state untouched, with the handle absent and no relay task
\* created; a poisoned lock, a sidecar resolution failure and a spawn failure
\* are the only ways either command returns Err.
C5_FailureLeavesStateUntouched ==
    [][ /\ \A c \in Callers :
             (pc[c] = "s_spawn" /\ Returns(c)) =>
                /\ last'[1] = "start"
                /\ last'[2] \in { SpawnError, SidecarError }
                /\ Untouched
                /\ process' = 0
        /\ (ReturnsAtLock /\ poisoned) =>
                /\ last'[2] = PoisonError
                /\ Untouched
                /\ process' = 0
        /\ ((ReturnsAtLock \/ \E c \in Callers : Returns(c))
               /\ last'[2].kind = "Err") =>
                /\ \/ /\ \E c \in Callers : pc[c] = "s_spawn"
                      /\ last'[2] \in { SpawnError, SidecarError }
                   \/ /\ ReturnsAtLock
                      /\ poisoned
                      /\ last'[2] = PoisonError
                /\ Untouched ]_vars

\* start_backend() failed on the poisoned lock; the child spawned by the
\* invocation that panicked got no relay and no handle
C5_Witness ==
    /\ last = << "start", PoisonError >>
    /\ poisoned
    /\ process = 0
    /\ spawned = 1
    /\ relay[1] = "none"

\* relay k takes the event at the head of its receiver
Receives(k) ==
    /\ relay[k] = "Listening"
    /\ rx[k] # << >>
    /\ rx'[k] = Tail(rx[k])

\* relay k emits exactly the notification n in this step
EmitsOnly(k, n) ==
    \E delivered \in BOOLEAN :
       emitted'[k] = Append(emitted[k], [n EXCEPT !.delivered = delivered])

\* C6: a Terminated event received by a Listening relay produces exactly one
\* backend-terminated notification carrying the exit status and makes the
\* relay Done; a Done relay stays Done, takes nothing more from its stream
\* and emits nothing more.
C6_TerminatedEndsRelay ==
    [][ \A k \in Ids :
          /\ (Receives(k) /\ Head(rx[k]).kind = "Terminated") =>
                /\ EmitsOnly(k, Notification("backend-terminated", NoMsg,
                                             Head(rx[k]).status, TRUE))
                /\ relay'[k] = "Done"
          /\ relay[k] = "Done" =>
                /\ relay'[k] = "Done"
                /\ rx'[k] = rx[k]
                /\ emitted'[k] = emitted[k] ]_vars

\* a relay is Done after Terminated while a later event is still in its stream
C6_Witness ==
    \E k \in Ids :
       /\ relay[k] = "Done"
       /\ rx[k] # << >>
       /\ Len(emitted[k]) = 1
       /\ emitted[k][1].name = "backend-terminated"
       /\ emitted[k][1].status = 1

\* C7: an Error event received by a Listening relay produces exactly one
\* backend-error notification carrying the event's message unchanged, and
\* the relay is still Listening afterwards, so it handles the events that
\* follow.
C7_ErrorKeepsListening ==
    [][ \A k \in Ids :
          (Receives(k) /\ Head(rx[k]).kind = "Error") =>
             /\ EmitsOnly(k, Notification("backend-error", Head(rx[k]).msg,
                                          NoStatus, TRUE))
             /\ relay'[k] = "Listening" ]_vars

\* a relay that handled an Error event has handled the next event as well
C7_Witness ==
    \E k \in Ids :
       /\ Len(emitted[k]) = 2
       /\ emitted[k][1].name = "backend-error"
       /\ emitted[k][1].msg = "broken pipe"
       /\ emitted[k][2].name = "backend-terminated"
       /\ rx[k] = << >>

\* a step of the child process, of its channel or of a relay handling an event
EventStep ==
    \/ rx' # rx
    \/ emitted' # emitted
    \/ printed' # printed
    \/ closed' # closed
    \/ \E k \in Ids : child[k] = "running" /\ child'[k] = "exited"
    \/ \E k \in Ids : relay[k] = "Listening" /\ relay'[k] # "Listening"

\* C8: command results do not depend on child events: a stop_backend() that
\* got the lock returns Ok("Backend stopped") or Ok("Backend not running")
\* according to the presence of the handle alone, and a step of the child,
\* of its channel or of a relay returns no result, moves no invocation and
\* changes nothing a result is computed from.
C8_ResultsIndependentOfEvents ==
    [][ /\ \A c \in Callers :
             (pc[c] = "t_take" /\ pc'[c] # pc[c]) =>
                /\ pc'[c] = "idle"
                /\ last' = << "stop", IF process # 0 THEN Stopped ELSE NotRunning >>
        /\ EventStep =>
             /\ last' = last
             /\ pc' = pc
             /\ calls' = calls
             /\ process' = process
             /\ poisoned' = poisoned
             /\ lockHolder' = lockHolder ]_vars

\* stop_backend() is about to take the handle of a relay whose child has
\* reported an error and terminated
C8_Witness ==
    \E c \in Callers, k \in Ids :
       /\ pc[c] = "t_take"
       /\ process = k
       /\ relay[k] = "Done"
       /\ Len(emitted[k]) = 2
       /\ emitted[k][1].name = "backend-error"
       /\ emitted[k][2].name = "backend-terminated"

NoStop == \A k \in Ids : ~abortReq[k]

\* C9: the lock makes the presence check and the handle store atomic: at
\* most one invocation is inside a command at a time, and as long as no
\* stop_backend() has removed a handle, start_backend() calls spawn at most
\* one child and relay, no invocation is past the presence check once a
\* handle is stored, and a call that returned "Backend started successfully"
\* or "Backend already running" left the one spawned relay's handle stored.
C9_ConcurrentStartsSpawnOnce ==
    /\ Cardinality({ c \in Callers : pc[c] # "idle" }) <= 1
    /\ \A c \in Callers : pc[c] # "idle" => lockHolder = c
    /\ NoStop =>
         /\ spawned <= 1
         /\ Cardinality({ k \in Ids : relay[k] # "none" }) <= 1
         /\ process # 0 =>
              \A c \in Callers : pc[c] \notin { "s_spawn", "s_task", "s_store" }
         /\ last[2] \in { Started, AlreadyRunning } =>
              process # 0 /\ spawned = 1

\* two start_backend() calls: one started the backend, the other found it
C9_Witness ==
    /\ calls = 2
    /\ NoStop
    /\ last = << "start", AlreadyRunning >>
    /\ spawned = 1
    /\ process = 1
    /\ \A c \in Callers : pc[c] = "idle"

\* C10: a relay that reaches Done on its own leaves the supervisor state
\* unchanged, so its stale handle stays stored, and a start_backend() that
\* finds the stale handle returns "Backend already running" and spawns
\* nothing; only stop_backend() removes a stored handle.
C10_StaleHandleStays ==
    [][ /\ \A k \in Ids :
             (relay[k] = "Listening" /\ relay'[k] = "Done") =>
                /\ process' = process
                /\ abortReq' = abortReq
        /\ \A c \in Callers :
             (pc[c] = "s_check" /\ process # 0 /\ relay[process] = "Done"
                /\ pc'[c] # pc[c]) =>
                /\ last' = << "start", AlreadyRunning >>
                /\ Untouched
        /\ (process # 0 /\ process' # process) =>
             /\ \E c \in Callers : pc[c] = "t_take"
             /\ last' = << "stop", Stopped >> ]_vars

\* start_backend() is at its presence check while the stored handle is stale
C10_Witness ==
    \E c \in Callers :
       /\ pc[c] = "s_check"
       /\ process # 0
       /\ relay[process] = "Done"
       /\ ~abortReq[process]

\* caller c takes a step of stop_backend
StopStep(c) ==
    \/ pc[c] = "t_take" /\ pc'[c] # pc[c]
    \/ pc[c] = "idle" /\ pc'[c] = "t_take"
    \/ ReturnsAtLock /\ last'[1] = "stop"

\* C11: stop_backend() only requests cancellation of the relay task: no step
\* of it changes the running state of any child, so a child running before
\* stop_backend() is running when it returns, and a start_backend() that
\* follows spawns a second child while the first is still alive.
C11_StopLeavesChildRunning ==
    [][ \A c \in Callers : StopStep(c) => child' = child /\ closed' = closed ]_vars

\* the backend was stopped and started again: the first child is still
\* running next to the second
C11_Witness ==
    /\ spawned = 2
    /\ child[1] = "running"
    /\ child[2] = "running"
    /\ abortReq[1]
    /\ \A c \in Callers : pc[c] = "idle"

\* relay k is Listening and its stream has delivered a Terminated event or
\* has been closed
StreamEnds(k) ==
    /\ relay[k] = "Listening"
    /\ \/ \E i \in DOMAIN rx[k] : rx[k][i].kind = "Terminated"
       \/ closed[k]

DoneIsTerminal ==
    [][ \A k \in Ids : relay[k] = "Done" => relay'[k] = "Done" ]_vars

\* C12 as stated: under fair scheduling every relay whose stream delivers a
\* Terminated event or closes eventually reaches Done, and Done is terminal.
C12_EveryRelayReachesDone ==
    /\ \A k \in Ids : StreamEnds(k) ~> (relay[k] = "Done")
    /\ DoneIsTerminal

\* C12, amended: under fair scheduling every relay whose stream delivers a
\* Terminated event or closes eventually stops listening, and it does so by
\* reaching Done unless stop_backend() has requested its cancellation, in
\* which case it may end cancelled instead; Done is terminal.
C12_RelayReachesDoneUnlessCancelled ==
    /\ \A k \in Ids : <>[](~StreamEnds(k))
    /\ [][ \A k \in Ids :
             (StreamEnds(k) /\ relay'[k] # "Listening") =>
                (relay'[k] = "Done" \/ abortReq[k]) ]_vars
    /\ DoneIsTerminal

\* a relay reached Done through a closed channel, without a Terminated event
\* and without being cancelled
C12_Witness ==
    \E k \in Ids :
       /\ relay[k] = "Done"
       /\ closed[k]
       /\ ~abortReq[k]
       /\ emitted[k] = << >>
       /\ child[k] = "running"

\* the next step of the invocation caller c is in
CommandStep(c) ==
    \/ StartCheck(c)
    \/ StartSpawn(c)
    \/ StartTask(c)
    \/ StartStore(c)
    \/ StopTake(c)

\* C13: neither command waits for the relay: an invocation that has the lock
\* can always take its next step, whatever state the relays are in, and the
\* step with which start_backend() or stop_backend() returns leaves every
\* relay in the state it was in, Listening included.
C13_CommandsDoNotWaitForRelay ==
    /\ [](\A c \in Callers : pc[c] # "idle" => ENABLED CommandStep(c))
    /\ [][ \A c \in Callers :
             (pc[c] \in { "s_store", "t_take" } /\ pc'[c] = "idle") =>
                relay' = relay ]_vars

\* stop_backend() has returned while the relay it cancelled, scheduled by a
\* start_backend() that returned earlier, is still Listening
C13_Witness ==
    /\ last = << "stop", Stopped >>
    /\ \A c \in Callers : pc[c] = "idle"
    /\ \E k \in Ids : relay[k] = "Listening" /\ abortReq[k] /\ rx[k] # << >>

\* relay k handles an event and the notification it emits is not delivered
FailedEmit(k) ==
    /\ Receives(k)
    /\ Len(emitted'[k]) = Len(emitted[k]) + 1
    /\ ~emitted'[k][Len(emitted'[k])].delivered

\* C14: a notification that cannot be delivered does not change what the
\* relay does: after an Error event whose backend-error emission fails the
\* relay is Listening, after a Terminated event whose backend-terminated
\* emission fails it is Done, and nothing else changes, as when delivery
\* succeeds.
C14_FailedEmitIsIgnored ==
    [][ \A k \in Ids :
          FailedEmit(k) =>
             /\ Head(rx[k]).kind \in { "Error", "Terminated" }
             /\ relay'[k] = IF Head(rx[k]).kind = "Error"
                              THEN "Listening" ELSE "Done"
             /\ \A j \in Ids \ { k } : relay'[j] = relay[j]
             /\ process' = process
             /\ abortReq' = abortReq
             /\ printed' = printed
             /\ pc' = pc /\ last' = last ]_vars

\* both notifications of a relay failed to be delivered, and the relay went
\* on from the Error event to the Terminated event
C14_Witness ==
    \E k \in Ids :
       /\ Len(emitted[k]) = 2
       /\ emitted[k][1] = Notification("backend-error", "broken pipe", NoStatus, FALSE)
       /\ emitted[k][2] = Notification("backend-terminated", NoMsg, 1, FALSE)
       /\ relay[k] = "Done"

\* C15: a Stdout or Stderr event, malformed bytes included, and an event of
\* any other unrecognised kind leave the relay Listening and emit no
\* notification; an output line is printed decoded lossily, every byte that
\* is not text replaced by U+FFFD.
C15_OutputEventsEmitNothing ==
    [][ \A k \in Ids :
          (Receives(k) /\ Head(rx[k]).kind \in { "Stdout", "Stderr", "Other" }) =>
             /\ relay' = relay
             /\ emitted' = emitted
             /\ Head(rx[k]).kind = "Other" => printed' = printed
             /\ Head(rx[k]).kind # "Other" =>
                  /\ printed'[1] = Head(rx[k]).kind
                  /\ Len(printed'[2]) = Len(Head(rx[k]).line)
                  /\ \A i \in DOMAIN printed'[2] :
                       printed'[2][i] = IF Head(rx[k]).line[i] = 255
                                          THEN 65533 ELSE Head(rx[k]).line[i] ]_vars

\* a relay has handled two events, the last one a malformed stderr line, and
\* is still Listening, having emitted nothing
C15_Witness ==
    \E k \in Ids :
       /\ relay[k] = "Listening"
       /\ produced = 2
       /\ rx[k] = << >>
       /\ emitted[k] = << >>
       /\ printed = << "Stderr", <<72, 65533>> >>
       /\ ~closed[k]

\* C16 as stated: in every reachable state every relay task that has been
\* spawned is the one whose handle is stored in the supervisor state or has
\* had its cancellation requested.
C16_EveryRelayStoredOrCancelled ==
    \A k \in Ids : relay[k] # "none" => (process = k \/ abortReq[k])

\* C16, amended: every relay task that has been spawned is the one whose
\* handle is stored, or has had its cancellation requested, or was spawned by
\* a start_backend() invocation that holds the lock and has not yet stored
\* its handle.
C16_RelayStoredHeldOrCancelled ==
    \A k \in Ids :
       relay[k] # "none" =>
          \/ process = k
          \/ abortReq[k]
          \/ \E c \in Callers :
                pc[c] = "s_store" /\ kid[c] = k /\ lockHolder = c /\ process = 0

\* a cancelled relay and the stored relay of the restarted backend, both
\* having been spawned
C16_Witness ==
    /\ process = 2
    /\ abortReq[1] /\ ~abortReq[2]
    /\ relay[1] = "Aborted"
    /\ relay[2] = "Done"

\* C17: a cancellation request of stop_backend() stands for good, and
\* eventually every relay whose cancellation has been requested has stopped
\* listening, whether or not its child terminates or its channel closes;
\* a relay that has stopped takes no event from its stream and emits no
\* notification any more.
C17_CancelledRelayStops ==
    /\ \A k \in Ids : <>[](abortReq[k] => relay[k] \in { "Aborted", "Done" })
    /\ [][ \A k \in Ids :
             /\ abortReq[k] => abortReq'[k]
             /\ relay[k] \in { "Aborted", "Done" } =>
                  /\ relay'[k] = relay[k]
                  /\ rx'[k] = rx[k]
                  /\ emitted'[k] = emitted[k] ]_vars

\* a relay ended cancelled with an event left in its stream, while its child
\* is still running and its channel is open
C17_Witness ==
    \E k \in Ids :
       /\ relay[k] = "Aborted"
       /\ child[k] = "running"
       /\ ~closed[k]
       /\ rx[k] # << >>

\* the number of backend-terminated notifications relay k emitted
Terminations(k) ==
    Cardinality({ i \in DOMAIN emitted[k] :
                     emitted[k][i].name = "backend-terminated" })

RECURSIVE TerminationsUpTo(_)
TerminationsUpTo(n) ==
    IF n = 0 THEN 0 ELSE Terminations(n) + TerminationsUpTo(n - 1)

\* C18: every relay task emits at most one backend-terminated notification,
\* a relay that was never spawned emits none, and so the number of
\* backend-terminated notifications never exceeds the number of spawns.
C18_OneTerminationPerRelay ==
    /\ \A k \in Ids : Terminations(k) <= 1
    /\ \A k \in Ids : relay[k] = "none" => emitted[k] = << >>
    /\ TerminationsUpTo(MaxSpawns) <= spawned

\* a relay has emitted backend-terminated once and a second Terminated event
\* is left in its stream
C18_Witness ==
    \E k \in Ids :
       /\ Terminations(k) = 1
       /\ rx[k] # << >>
       /\ Head(rx[k]).kind = "Terminated"

\* the invocation that returned last is a stop_backend() that returned Ok
AfterStop == last[1] = "stop" /\ last[2] \in { Stopped, NotRunning }

\* C19: a start_backend() that follows a stop_backend() finds the handle
\* absent and goes on to spawn, whatever state the earlier relays are in;
\* when resolution and spawn succeed it returns "Backend started
\* successfully" and stores the handle of the relay it has just spawned,
\* which is a new one with no cancellation requested.
C19_RestartAfterStop ==
    [][ \A c \in Callers :
          /\ (AfterStop /\ pc[c] = "s_check" /\ pc'[c] # pc[c]) =>
                /\ process = 0
                /\ pc'[c] = "s_spawn"
          /\ (AfterStop /\ kid[c] # 0 /\ Returns(c)) =>
                /\ last' = << "start", Started >>
                /\ process' = kid[c]
                /\ kid[c] = spawned
                /\ relay[kid[c]] # "none"
                /\ ~abortReq[kid[c]]
                /\ \A k \in Ids : k # kid[c] /\ relay[k] # "none" => abortReq[k] ]_vars

\* the backend was restarted while the relay of the stopped one is still
\* being cancelled
C19_Witness ==
    /\ last = << "start", Started >>
    /\ process = 2
    /\ relay[2] = "Listening"
    /\ relay[1] = "Listening"
    /\ abortReq[1]

====
